---- MODULE Spec2Model ----
(***************************************************************************)
(* duplicateScanner: a hash-bucketed, time-ordered registry of file        *)
(* records (duplicateTracker.c) and the recursive directory walk that      *)
(* fills it (duplicateScanner.c).                                          *)
(*                                                                         *)
(* Strings are sequences of character codes.  A C long is 64 bits wide and *)
(* is kept as eight 8-bit limbs, least significant first, so that the      *)
(* FNV accumulation wraps exactly as the two's complement machine does.    *)
(***************************************************************************)
EXTENDS Integers, Sequences, FiniteSets, TLC

(***************************************************************************)
(* Program constants                                                       *)
(***************************************************************************)
MAX_PATH == 4096
TBL_SIZE == 512000
FNV_PRIME == 16777619
\* 2166136261 = 0x811C9DC5 as a long, least significant byte first
FNV_OFFSET == <<197, 157, 28, 129, 0, 0, 0, 0>>
\* width of long in bytes (LP64)
LONG_BYTES == 8

SLASH == 47

\* the commands of the prompt: 's', 'a' and 'q'
PRGM_SRH == 115
PRGM_ALL == 97
PRGM_EXT == 113

(***************************************************************************)
(* Bounds and inputs                                                       *)
(***************************************************************************)
\* the number of list nodes malloc hands out in one run
MaxNodes == 3
\* modification times are 1..MaxTime
MaxTime == 2

\* keys handed to hash alone are at most MaxKeyLen bytes long
MaxKeyLen == 2

Times == 1..MaxTime

\* the paths registered: "/d/a" and "/d/s/a" (one base name in two
\* directories) and "bfa" (no directory part; "yms" hashes to its bucket)
Paths ==
    { <<47, 100, 47, 97>>, <<47, 100, 47, 115, 47, 97>>, <<98, 102, 97>> }

\* the names looked up: "a", "yms" and "zz", which is never registered
Names == { <<97>>, <<121, 109, 115>>, <<122, 122>> }

\* every key the model hashes
Keys == Names \cup { <<98, 102, 97>>, <<98>>, <<120>>, <<99>> }

\* bytes of the keys handed to hash alone: 'a', '.' and 0xC3, which is
\* negative as a signed char
HashBytes == {97, 46, 195}

RECURSIVE KeysUpTo(_)
KeysUpTo(n) ==
    IF n = 0 THEN { << >> }
    ELSE LET shorter == KeysUpTo(n - 1)
         IN  shorter \cup { Append(k, b) : k \in shorter, b \in HashBytes }

\* the non-empty keys over HashBytes, and "bfa" and "yms"
HashKeys ==
    (KeysUpTo(MaxKeyLen) \ { << >> })
        \cup { <<98, 102, 97>>, <<121, 109, 115>> }

(***************************************************************************)
(* 64-bit arithmetic on limbs                                              *)
(***************************************************************************)
RECURSIVE XorBits(_, _, _)
XorBits(a, b, n) ==
    IF n = 0 THEN 0
    ELSE (((a % 2) + (b % 2)) % 2) + 2 * XorBits(a \div 2, b \div 2, n - 1)

\* integer promotion of a char (sign extension to the width of long)
LongOfChar(c) ==
    [i \in 1..LONG_BYTES |-> IF i = 1 THEN c % 256 ELSE IF c < 0 THEN 255 ELSE 0]

\* a non-negative int constant as a long
LongOfInt(n) ==
    [i \in 1..LONG_BYTES |-> IF i <= 4 THEN (n \div (256 ^ (i - 1))) % 256 ELSE 0]

LongXor(x, y) == [i \in 1..LONG_BYTES |-> XorBits(x[i], y[i], 8)]

RECURSIVE ColumnSum(_, _, _, _)
ColumnSum(x, y, k, i) ==
    IF i > k THEN 0 ELSE x[i] * y[k + 1 - i] + ColumnSum(x, y, k, i + 1)

RECURSIVE MulLimbs(_, _, _, _)
MulLimbs(x, y, k, carry) ==
    IF k > LONG_BYTES THEN << >>
    ELSE LET s == carry + ColumnSum(x, y, k, 1)
         IN  <<s % 256>> \o MulLimbs(x, y, k + 1, s \div 256)

\* x * y modulo 2^64
LongMul(x, y) == MulLimbs(x, y, 1, 0)

LongIsNegative(x) == x[LONG_BYTES] >= 128

RECURSIVE NegLimbs(_, _, _)
NegLimbs(x, k, carry) ==
    IF k > LONG_BYTES THEN << >>
    ELSE LET s == (255 - x[k]) + carry
         IN  <<s % 256>> \o NegLimbs(x, k + 1, s \div 256)

\* two's complement negation: the magnitude of a negative long
LongNeg(x) == NegLimbs(x, 1, 1)

RECURSIVE ModLimbs(_, _, _, _)
ModLimbs(x, m, k, r) ==
    IF k = 0 THEN r ELSE ModLimbs(x, m, k - 1, ((r * 256) + x[k]) % m)

\* C remainder of a signed long by a positive int: truncates toward zero
LongRem(x, m) ==
    IF LongIsNegative(x) THEN 0 - ModLimbs(LongNeg(x), m, LONG_BYTES, 0)
    ELSE ModLimbs(x, m, LONG_BYTES, 0)

(***************************************************************************)
(* hash: FNV-1a over the bytes of a non-empty key                          *)
(***************************************************************************)
\* one pass of the do-while body
hashStep(h, c) == LongMul(LongXor(h, LongOfChar(c)), LongOfInt(FNV_PRIME))

\* hashFold returning the remainder as it is
hashFold_noAbs(h) == LongRem(h, TBL_SIZE)

\* hash %= TBL_SIZE; return hash < 0 ? -hash : hash
hashFold(h) ==
    LET r == LongRem(h, TBL_SIZE) IN IF r < 0 THEN 0 - r ELSE r

RECURSIVE hashLoop(_, _, _)
hashLoop(h, k, i) ==
    LET h2 == hashStep(h, k[i])
    IN  IF i + 1 > Len(k) THEN h2 ELSE hashLoop(h2, k, i + 1)

hashOf(k) == hashFold(hashLoop(FNV_OFFSET, k, 1))

\* hashOf over the keys of the model, computed once
hashTable == [k \in Keys |-> hashOf(k)]

hash(k) == IF k \in Keys THEN hashTable[k] ELSE hashOf(k)

(***************************************************************************)
(* Registry state (duplicateTracker.c)                                     *)
(*                                                                         *)
(* heap       the list nodes malloc has handed out, by address; address 0  *)
(*            is NULL.  A node keeps its contents after it is freed.       *)
(* nodeLive   addresses whose struct node block is allocated               *)
(* pathLive   addresses of nodes whose filePath buffer is allocated        *)
(* fileTable  the table pointer: NULL or TABLE                             *)
(* buckets    the array fileTable points to, as the map from the indices   *)
(*            of its non-NULL slots to chain heads (calloc zeroes it all)  *)
(* tableLive  whether the bucket array is allocated                        *)
(* fileCount  the static file counter                                      *)
(* op, ret, out  the last call made into the tracker, what it returned and *)
(*            what it printed                                              *)
(***************************************************************************)
VARIABLES heap, nodeLive, pathLive, fileTable, buckets, tableLive, fileCount,
          op, ret, out

(***************************************************************************)
(* One call of hash, pass by pass                                          *)
(*                                                                         *)
(* charSigned  whether plain char is signed in this build                  *)
(* hpc         "idle", or where the call is: "loop", "fold"                *)
(* key, keyPos the argument and the index of the byte *key                 *)
(* hashVal     the local variable hash                                     *)
(* hashRet     what the call returned, once it has                         *)
(* kept        a key, the value a call returned for it, and whether the    *)
(*             key has been hashed again since                             *)
(***************************************************************************)
VARIABLES charSigned, hpc, key, keyPos, hashVal, hashRet, kept

(***************************************************************************)
(* The program (duplicateScanner.c)                                        *)
(*                                                                         *)
(* fs       the file system: the paths stat and opendir fail on            *)
(* pc       where main is: "main", "init", "scan", "prompt", "cleanup",    *)
(*          "exit"; "none" when only the tracker is exercised              *)
(* argv     the arguments after the program's name                         *)
(* argc     main's argc                                                    *)
(* stack    the calls of scanFile and scanDirectory in progress, the       *)
(*          innermost last                                                 *)
(* stderr   what the program has reported on its diagnostic channel        *)
(* status   what main returned                                             *)
(* option   main's local option; nameBuf its local fileName                *)
(* stdin    the standard input: "open" while it has more to give, "eof"    *)
(*          once a read has found it at its end                            *)
(* prompts  whether the number of prompts main has printed is odd          *)
(***************************************************************************)
VARIABLES fs, pc, argv, argc, stack, stderr, status, option, nameBuf, stdin,
          prompts

NULL == 0
TABLE == 1

\* the registry as one value, so that the C functions are operators on it
Reg ==
    [heap |-> heap, nodeLive |-> nodeLive, pathLive |-> pathLive,
     fileTable |-> fileTable, buckets |-> buckets, tableLive |-> tableLive,
     fileCount |-> fileCount]

\* the nodes linked from n, in order
RECURSIVE Chain(_, _)
Chain(h, n) == IF n = NULL THEN << >> ELSE <<n>> \o Chain(h, h[n].next)

\* the nodes the table reaches
Reachable(R) ==
    UNION { {c[i] : i \in DOMAIN c} :
            c \in { Chain(R.heap, R.buckets[b]) : b \in DOMAIN R.buckets } }

Unreached == [filePath |-> << >>, modified |-> 0, next |-> NULL]

\* A block that no pointer reaches can no longer be read by the program:
\* of such a block the model keeps only whether it is still allocated.
Forget(R) ==
    LET live == Reachable(R)
    IN  [R EXCEPT !.heap = [n \in DOMAIN @ |->
                              IF n \in live THEN @[n] ELSE Unreached]]

SetReg(R) ==
    /\ heap' = Forget(R).heap
    /\ nodeLive' = R.nodeLive
    /\ pathLive' = R.pathLive
    /\ fileTable' = R.fileTable
    /\ buckets' = R.buckets
    /\ tableLive' = R.tableLive
    /\ fileCount' = R.fileCount

\* fileTable[i]
Slot(R, i) == IF i \in DOMAIN R.buckets THEN R.buckets[i] ELSE NULL

\* difftime(a, b): only its sign is used
difftime(a, b) == a - b

\* strncpy(dst, src, MAX_PATH)
strncpy(src, n) == IF Len(src) > n THEN SubSeq(src, 1, n) ELSE src

\* where the for loop of fileName leaves its result: behind the last '/'
\* of filePath, at the start of filePath when it has none
afterLastSlash(filePath) ==
    1 + CHOOSE i \in 0..Len(filePath) :
            /\ i = 0 \/ filePath[i] = SLASH
            /\ \A j \in (i + 1)..Len(filePath) : filePath[j] # SLASH

\* fileName = copy for fileName = copy + 1: the '/' stays in the name
fileName_keepSlash(filePath) ==
    IF afterLastSlash(filePath) = 1 THEN filePath
    ELSE SubSeq(filePath, afterLastSlash(filePath) - 1, Len(filePath))

\* the part of filePath after its last '/'
fileName(filePath) ==
    SubSeq(filePath, afterLastSlash(filePath), Len(filePath))

\* newNode: okNode and okPath are the outcomes of its two mallocs.  When
\* the second malloc fails the node block is returned to nobody; its fields
\* were never assigned and are never read.
newNode(R, filePath, modified, okNode, okPath) ==
    LET n == Len(R.heap) + 1
    IN  IF ~okNode THEN [n |-> NULL, R |-> R]
        ELSE IF ~okPath
        THEN [n |-> NULL,
              R |-> [R EXCEPT !.heap = Append(@, [filePath |-> << >>,
                                                  modified |-> 0,
                                                  next |-> NULL]),
                              !.nodeLive = @ \cup {n}]]
        ELSE [n |-> n,
              R |-> [R EXCEPT !.heap = Append(@, [filePath |-> strncpy(filePath, MAX_PATH),
                                                  modified |-> modified,
                                                  next |-> NULL]),
                              !.nodeLive = @ \cup {n},
                              !.pathLive = @ \cup {n}]]

\* insertAfter without its loop: n is always linked right behind the head
insertAfter_noScan(h, n, head) == head

\* insertAfter stopping at a node of the same age (< for <=)
RECURSIVE insertAfter_strict(_, _, _)
insertAfter_strict(h, n, head) ==
    LET next == h[head].next
    IN  IF next # NULL /\ difftime(h[n].modified, h[next].modified) < 0
        THEN insertAfter_strict(h, n, next)
        ELSE head

\* the for loop of insertNode: the node after which n is linked in
RECURSIVE insertAfter(_, _, _)
insertAfter(h, n, head) ==
    LET next == h[head].next
    IN  IF next # NULL /\ difftime(h[n].modified, h[next].modified) <= 0
        THEN insertAfter(h, n, next)
        ELSE head

\* linkHead that leaves n->next NULL: the old chain is dropped
linkHead_dropChain(R, n, index, head) ==
    [R EXCEPT !.buckets = (index :> n) @@ @, !.heap[n].next = NULL]

\* fileTable[index] = n; n->next = head
linkHead(R, n, index, head) ==
    [R EXCEPT !.buckets = (index :> n) @@ @, !.heap[n].next = head]

\* head->next = n; n->next = next, head being where the for loop stopped
linkAfter(R, n, last) ==
    [R EXCEPT !.heap[n].next = R.heap[last].next, !.heap[last].next = n]

\* linkNode putting n at the head also when the head is of the same age
\* (>= 0 for > 0)
linkNode_headOnTie(R, n) ==
    LET index == hash(fileName(R.heap[n].filePath))
        head  == Slot(R, index)
        R1    == [R EXCEPT !.fileCount = @ + 1]
    IN  IF head = NULL
           \/ difftime(R.heap[n].modified, R.heap[head].modified) >= 0
        THEN [ret |-> 0, R |-> linkHead(R1, n, index, head)]
        ELSE [ret |-> 0, R |-> linkAfter(R1, n, insertAfter(R.heap, n, head))]

\* insertNode once the table is known to be allocated
linkNode(R, n) ==
    LET index == hash(fileName(R.heap[n].filePath))
        head  == Slot(R, index)
        R1    == [R EXCEPT !.fileCount = @ + 1]
    IN  IF head = NULL
           \/ difftime(R.heap[n].modified, R.heap[head].modified) > 0
        THEN [ret |-> 0, R |-> linkHead(R1, n, index, head)]
        ELSE [ret |-> 0, R |-> linkAfter(R1, n, insertAfter(R.heap, n, head))]

\* insertNode without the test for an unallocated table
insertNode_unchecked(R, n) == linkNode(R, n)

insertNode(R, n) ==
    IF R.fileTable = NULL THEN [ret |-> 1, R |-> R] ELSE linkNode(R, n)

trackFile(R, filePath, modified, okNode, okPath) ==
    LET nn == newNode(R, filePath, modified, okNode, okPath)
    IN  IF nn.n = NULL THEN [ret |-> 1, R |-> nn.R]
        ELSE insertNode(nn.R, nn.n)

\* okTable is the outcome of calloc
initializeFileTable(R, okTable) ==
    IF ~okTable
    THEN [ret |-> 1, R |-> [R EXCEPT !.fileTable = NULL, !.buckets = << >>]]
    ELSE [ret |-> 0,
          R |-> [R EXCEPT !.fileTable = TABLE, !.buckets = << >>,
                          !.tableLive = TRUE]]

\* free(n->next); free(n->file.filePath); free(n)
freeNode(R, n) ==
    IF n = NULL THEN R
    ELSE [R EXCEPT !.nodeLive = (@ \ {R.heap[n].next}) \ {n},
                   !.pathLive = @ \ {n}]

RECURSIVE freeSlots(_, _)
freeSlots(R, S) ==
    IF S = {} THEN R
    ELSE LET i == CHOOSE j \in S : \A k \in S : j <= k
         IN  freeSlots(freeNode(R, Slot(R, i)), S \ {i})

\* freeFileTable without its test for a table that is already NULL
freeFileTable_unchecked(R) ==
    [ret |-> 0,
     R |-> [freeSlots(R, DOMAIN R.buckets)
                EXCEPT !.fileTable = NULL, !.buckets = << >>,
                       !.tableLive = FALSE]]

\* the loop over all TBL_SIZE slots frees nothing at a NULL slot, so it is
\* taken over the non-NULL ones; the freed array's contents are gone
freeFileTable(R) ==
    IF R.fileTable = NULL THEN [ret |-> 1, R |-> R]
    ELSE [ret |-> 0,
          R |-> [freeSlots(R, DOMAIN R.buckets)
                     EXCEPT !.fileTable = NULL, !.buckets = << >>,
                            !.tableLive = FALSE]]

getFileCount(R) == R.fileCount

\* printFileChain: nothing for an empty list, else one header with the
\* count and the name of the first file, then one numbered line per node
printFileChain(R, n) ==
    IF n = NULL THEN << >>
    ELSE LET c == Chain(R.heap, R.heap[n].next)
             all == <<n>> \o c
         IN  <<[kind |-> "chain",
                count |-> 1 + Len(c),
                name |-> fileName(R.heap[n].filePath),
                lines |-> [i \in 1..Len(all) |->
                             [i |-> i,
                              modified |-> R.heap[all[i]].modified,
                              filePath |-> R.heap[all[i]].filePath]]]>>

\* findFile without its test for an empty slot
findFile_noEmptyTest(R, fileName_) ==
    IF R.fileTable = NULL THEN <<[kind |-> "uninitialized"]>>
    ELSE printFileChain(R, Slot(R, hash(fileName_)))

\* findFile: an error on stderr for a NULL table, "no match" on stdout for
\* an empty slot, else the chain of the slot
findFile(R, fileName_) ==
    IF R.fileTable = NULL THEN <<[kind |-> "uninitialized"]>>
    ELSE LET index == hash(fileName_)
         IN  IF Slot(R, index) = NULL THEN <<[kind |-> "nomatch"]>>
             ELSE printFileChain(R, Slot(R, index))

\* printSlots walking the table from its last slot down (i-- for i++)
RECURSIVE printSlots_descending(_, _)
printSlots_descending(R, S) ==
    IF S = {} THEN << >>
    ELSE LET i == CHOOSE j \in S : \A k \in S : j >= k
         IN  printFileChain(R, Slot(R, i)) \o printSlots_descending(R, S \ {i})

\* the for loop of printFileTable over the slots S, in ascending order;
\* printFileChain prints nothing for a NULL slot, so S is the non-NULL ones
RECURSIVE printSlots(_, _)
printSlots(R, S) ==
    IF S = {} THEN << >>
    ELSE LET i == CHOOSE j \in S : \A k \in S : j <= k
         IN  printFileChain(R, Slot(R, i)) \o printSlots(R, S \ {i})

printFileTable(R) ==
    IF R.fileTable = NULL THEN <<[kind |-> "null"]>>
    ELSE printSlots(R, DOMAIN R.buckets)

regVars ==
    <<heap, nodeLive, pathLive, fileTable, buckets, tableLive, fileCount>>

hashVars == <<charSigned, hpc, key, keyPos, hashVal, hashRet, kept>>

mainVars ==
    <<fs, pc, argv, argc, stack, stderr, status, option, nameBuf, stdin,
      prompts>>

vars == <<regVars, op, ret, out, hashVars, mainVars>>

\* the value of a char that was never assigned
INDETERMINATE == 256

\* the locals and the streams of main before it runs
MainIdle ==
    /\ argv = << >>
    /\ argc = 1
    /\ stack = << >>
    /\ stderr = << >>
    /\ status = 0
    /\ option = INDETERMINATE
    /\ nameBuf = << >>
    /\ stdin = "open"
    /\ prompts = FALSE

(***************************************************************************)
(* The tracker's public functions, called in any order                     *)
(***************************************************************************)
\* the statics of duplicateTracker.c as the program starts
RegInit ==
    /\ heap = << >>
    /\ nodeLive = {}
    /\ pathLive = {}
    /\ fileTable = NULL
    /\ buckets = << >>
    /\ tableLive = FALSE
    /\ fileCount = 0
    /\ op = [name |-> "none"]
    /\ ret = 0
    /\ out = << >>

HashIdle ==
    /\ hpc = "idle"
    /\ key = << >>
    /\ keyPos = 0
    /\ hashVal = FNV_OFFSET
    /\ hashRet = 0
    /\ kept = [key |-> << >>, ret |-> 0, again |-> FALSE]

Init ==
    /\ RegInit
    /\ charSigned = TRUE
    /\ HashIdle
    /\ MainIdle
    /\ fs = [denied |-> {}, closed |-> {}]
    /\ pc = "none"

\* initialize() is called on a registry that is not initialized: before
\* any other operation, or after a teardown
Initialize ==
    /\ fileTable = NULL
    /\ \E okTable \in BOOLEAN :
          LET r == initializeFileTable(Reg, okTable)
          IN  /\ SetReg(r.R)
              /\ ret' = r.ret
    /\ op' = [name |-> "initialize"]
    /\ out' = << >>
    /\ UNCHANGED <<hashVars, mainVars>>

Register ==
    /\ Len(heap) < MaxNodes
    /\ \E filePath \in Paths, modified \in Times, okNode, okPath \in BOOLEAN :
          LET r == trackFile(Reg, filePath, modified, okNode, okPath)
          IN  /\ SetReg(r.R)
              /\ ret' = r.ret
              /\ op' = [name |-> "register", filePath |-> filePath,
                        modified |-> modified,
                        node |-> IF r.ret = 0 THEN Len(r.R.heap) ELSE NULL]
    /\ out' = << >>
    /\ UNCHANGED <<hashVars, mainVars>>

Lookup ==
    /\ \E name \in Names :
          /\ out' = findFile(Reg, name)
          /\ op' = [name |-> "lookup", fileName |-> name]
    /\ ret' = 0
    /\ UNCHANGED <<regVars, hashVars, mainVars>>

EnumerateAll ==
    /\ out' = printFileTable(Reg)
    /\ op' = [name |-> "enumerateAll"]
    /\ ret' = 0
    /\ UNCHANGED <<regVars, hashVars, mainVars>>

Count ==
    /\ ret' = getFileCount(Reg)
    /\ op' = [name |-> "count"]
    /\ out' = << >>
    /\ UNCHANGED <<regVars, hashVars, mainVars>>

Teardown ==
    /\ LET r == freeFileTable(Reg)
       IN  /\ SetReg(r.R)
           /\ ret' = r.ret
    /\ op' = [name |-> "teardown"]
    /\ out' = << >>
    /\ UNCHANGED <<hashVars, mainVars>>

Next ==
    \/ Initialize
    \/ Register
    \/ Lookup
    \/ EnumerateAll
    \/ Count
    \/ Teardown

Spec == Init /\ [][Next]_vars

(***************************************************************************)
(* hash on its own: calls with keys from HashKeys, one after another       *)
(***************************************************************************)
\* *key, the byte at keyPos read as a plain char
CharAt(k, i) == IF charSigned /\ k[i] > 127 THEN k[i] - 256 ELSE k[i]

HashInit ==
    /\ RegInit
    /\ charSigned \in BOOLEAN
    /\ HashIdle
    /\ MainIdle
    /\ fs = [denied |-> {}, closed |-> {}]
    /\ pc = "none"

\* long hash = FNV_OFFSET
HashCall ==
    /\ hpc = "idle"
    /\ \E k \in HashKeys : key' = k
    /\ keyPos' = 1
    /\ hashVal' = FNV_OFFSET
    /\ hashRet' = 0
    /\ hpc' = "loop"
    /\ UNCHANGED <<regVars, op, ret, out, mainVars, charSigned, kept>>

\* one pass of the do-while and its test *++key != '\0'
HashBody ==
    /\ hpc = "loop"
    /\ hashVal' = hashStep(hashVal, CharAt(key, keyPos))
    /\ keyPos' = keyPos + 1
    /\ hpc' = IF keyPos + 1 > Len(key) THEN "fold" ELSE "loop"
    /\ UNCHANGED <<regVars, op, ret, out, mainVars, charSigned, key, hashRet, kept>>

\* the fold and the return; the caller may keep the value of one call
\* and notes when the key of that call has been hashed again
HashReturn ==
    /\ hpc = "fold"
    /\ hashRet' = hashFold(hashVal)
    /\ hpc' = "idle"
    /\ \E keep \in BOOLEAN :
          kept' = IF kept.key = key THEN [kept EXCEPT !.again = TRUE]
                  ELSE IF keep
                  THEN [key |-> key, ret |-> hashFold(hashVal), again |-> FALSE]
                  ELSE kept
    /\ UNCHANGED <<regVars, op, ret, out, mainVars, charSigned, key, keyPos, hashVal>>

HashNext ==
    \/ HashCall
    \/ HashBody
    \/ HashReturn

SpecHash == HashInit /\ [][HashNext]_vars

(***************************************************************************)
(* The program: main, scanFile and scanDirectory over a file system        *)
(***************************************************************************)
\* sprintf(pathName, "%s/%s", directoryName, fileName)
PathName(directoryName, name) == directoryName \o <<SLASH>> \o name

\* "./././ ... /.", a directory whose path is MAX_PATH - 3 characters long
LongDirectory == [i \in 1..(MAX_PATH - 3) |-> IF i % 2 = 1 THEN 46 ELSE SLASH]

\* "c/c/c/ ... /c", a directory whose path is MAX_PATH - 7 characters long
CycleDirectory == [i \in 1..(MAX_PATH - 7) |-> IF i % 2 = 1 THEN 99 ELSE SLASH]

\* The directories of the file system with what readdir yields for each,
\* in order: "d" holds ".", "..", "a", "s", an unused slot and "x"; "d/s"
\* holds ".", "..", "a" and "b"; the long directory holds ".", "..", "a",
\* which makes the longest path that fits, "bb" and then "c"; the cycle
\* directory holds ".", "..", "l", which is a symbolic link to the
\* directory itself, and "a".
Directories ==
    (<<100>> :> << [d_name |-> <<46>>, d_ino |-> 1],
                   [d_name |-> <<46, 46>>, d_ino |-> 1],
                   [d_name |-> <<97>>, d_ino |-> 1],
                   [d_name |-> <<115>>, d_ino |-> 1],
                   [d_name |-> <<98>>, d_ino |-> 0],
                   [d_name |-> <<120>>, d_ino |-> 1] >>)
    @@ (<<100, 47, 115>> :> << [d_name |-> <<46>>, d_ino |-> 1],
                               [d_name |-> <<46, 46>>, d_ino |-> 1],
                               [d_name |-> <<97>>, d_ino |-> 1],
                               [d_name |-> <<98>>, d_ino |-> 1] >>)
    @@ (LongDirectory :> << [d_name |-> <<46>>, d_ino |-> 1],
                            [d_name |-> <<46, 46>>, d_ino |-> 1],
                            [d_name |-> <<97>>, d_ino |-> 1],
                            [d_name |-> <<98, 98>>, d_ino |-> 1],
                            [d_name |-> <<99>>, d_ino |-> 1] >>)
    @@ (CycleDirectory :> << [d_name |-> <<46>>, d_ino |-> 1],
                             [d_name |-> <<46, 46>>, d_ino |-> 1],
                             [d_name |-> <<108>>, d_ino |-> 1],
                             [d_name |-> <<97>>, d_ino |-> 1] >>)

\* the symbolic links of the file system with what each points to: "l" of
\* the cycle directory points to the cycle directory
Links == (PathName(CycleDirectory, <<108>>) :> CycleDirectory)

\* the files that are no directories, with their modification times:
\* "d/a", "d/x", "d/s/a" and "d/s/b", "a", "bb" and "c" of the long
\* directory, and "a" of the cycle directory
Files ==
    (<<100, 47, 97>> :> 1) @@ (<<100, 47, 120>> :> 2)
    @@ (<<100, 47, 115, 47, 97>> :> 2) @@ (<<100, 47, 115, 47, 98>> :> 1)
    @@ (PathName(LongDirectory, <<97>>) :> 1)
    @@ (PathName(LongDirectory, <<98, 98>>) :> 2)
    @@ (PathName(LongDirectory, <<99>>) :> 2)
    @@ (PathName(CycleDirectory, <<97>>) :> 1)

\* the paths stat may be denied: "d/a", "d/x", "d/s" and "d/s/b"
Deniable ==
    { <<100, 47, 97>>, <<100, 47, 120>>, <<100, 47, 115>>,
      <<100, 47, 115, 47, 98>> }

\* the command lines: no argument; "d"; "d/s" and "d/a"; "e", which does
\* not exist; the long directory
ArgLists ==
    { << >>, << <<100>> >>, << <<100, 47, 115>>, <<100, 47, 97>> >>,
      << <<101>> >>, << LongDirectory >> }

\* the command lines of runs over the cycle directory: the directory, and
\* the link in it
LinkArgLists ==
    { << CycleDirectory >>, << PathName(CycleDirectory, <<108>>) >> }

\* the path stat may be denied in these runs: "a" of the cycle directory
LinkDeniable == { PathName(CycleDirectory, <<97>>) }

\* path q is path p or leads to it: p is q, or q and a '/' and more
LeadsTo(q, p) ==
    /\ Len(q) <= Len(p)
    /\ Len(q) = Len(p) \/ p[Len(q) + 1] = SLASH
    /\ SubSeq(p, 1, Len(q)) = q

\* the path the system calls reach by fileName_: stat and opendir follow
\* every symbolic link on the way
RECURSIVE Resolve(_)
Resolve(fileName_) ==
    IF \E q \in DOMAIN Links : LeadsTo(q, fileName_)
    THEN LET q == CHOOSE x \in DOMAIN Links : LeadsTo(x, fileName_)
         IN  Resolve(Links[q] \o SubSeq(fileName_, Len(q) + 1, Len(fileName_)))
    ELSE fileName_

\* what stat(fileName, &statBuffer) answers in file system f: the tree
\* above, with stat failing on the paths in f.denied
stat(f, fileName_) ==
    LET file == Resolve(fileName_)
    IN  [fails |-> \/ file \notin (DOMAIN Directories) \cup (DOMAIN Files)
                   \/ file \in f.denied,
         isDir |-> file \in DOMAIN Directories,
         st_mtime |-> IF file \in DOMAIN Files THEN Files[file] ELSE 1]

\* what opendir(directoryName) answers: it fails on the directories in
\* f.closed
opendir(f, directoryName) ==
    [fails |-> Resolve(directoryName) \in f.closed,
     directory |-> Directories[Resolve(directoryName)]]

\* selfOrParent that knows "." only
selfOrParent_selfOnly(name) == name = <<46>>

\* strcmp(fileName, ".") == 0 || strcmp(fileName, "..") == 0
selfOrParent(name) == name = <<46>> \/ name = <<46, 46>>

\* tooLong that leaves the terminating '\0' out (+ 1 for + 2)
tooLong_noTerminator(directoryName, name) ==
    Len(directoryName) + Len(name) + 1 > MAX_PATH

\* tooLong that finds no path too long
tooLong_never(directoryName, name) == FALSE

\* strlen(directoryName) + strlen(fileName) + 2 > MAX_PATH
tooLong(directoryName, name) == Len(directoryName) + Len(name) + 2 > MAX_PATH

\* readDirectoryEntry: entries with d_ino 0 are passed over; the stream
\* that is left and the entry returned, << >> for NULL
RECURSIVE readDirectoryEntry(_)
readDirectoryEntry(directory) ==
    IF directory = << >> THEN [directory |-> << >>, entry |-> << >>]
    ELSE IF Head(directory).d_ino = 0 THEN readDirectoryEntry(Tail(directory))
    ELSE [directory |-> Tail(directory),
          entry |-> <<[index |-> Head(directory).d_ino,
                       fileName |-> strncpy(Head(directory).d_name, 255)]>>]

Top == stack[Len(stack)]

Pop == SubSeq(stack, 1, Len(stack) - 1)

\* the paths of S that the arguments args lead to: no others are met
Below(args, S) == { p \in S : \E i \in DOMAIN args : LeadsTo(args[i], p) }

\* the program as it starts, on one of the command lines args and a file
\* system where stat fails on some of the paths deniable that the command
\* line leads to and opendir on some of the directories closable
ProgramInit(args, deniable, closable) ==
    /\ RegInit
    /\ charSigned = TRUE
    /\ HashIdle
    /\ stack = << >>
    /\ stderr = << >>
    /\ status = 0
    /\ option = INDETERMINATE
    /\ nameBuf = << >>
    /\ stdin = "open"
    /\ prompts = FALSE
    /\ pc = "main"
    /\ argv \in args
    /\ argc = Len(argv) + 1
    /\ \E denied \in SUBSET Below(argv, deniable),
          closed \in SUBSET Below(argv, closable) :
          fs = [denied |-> denied, closed |-> closed]

MainInit == ProgramInit(ArgLists, Deniable, {<<100, 47, 115>>})

\* the program as it starts on the file system with the cyclic link
LinkInit == ProgramInit(LinkArgLists, LinkDeniable, {})

\* MainArgs returning 0 when no argument is given
MainArgs_returnsZero ==
    /\ pc = "main"
    /\ IF argc = 1
       THEN /\ status' = 0
            /\ pc' = "exit"
       ELSE /\ pc' = "init"
            /\ UNCHANGED status
    /\ UNCHANGED <<regVars, op, ret, out, hashVars,
                   fs, argv, argc, stack, stderr, option, nameBuf,
                   stdin, prompts>>

\* if (argc == 1) return -1
MainArgs ==
    /\ pc = "main"
    /\ IF argc = 1
       THEN /\ status' = 0 - 1
            /\ pc' = "exit"
       ELSE /\ pc' = "init"
            /\ UNCHANGED status
    /\ UNCHANGED <<regVars, op, ret, out, hashVars,
                   fs, argv, argc, stack, stderr, option, nameBuf,
                   stdin, prompts>>

\* if (initializeFileTable()) return -1
MainInitialize ==
    /\ pc = "init"
    /\ \E okTable \in BOOLEAN :
          LET r == initializeFileTable(Reg, okTable)
          IN  /\ SetReg(r.R)
              /\ ret' = r.ret
              /\ IF r.ret # 0
                 THEN /\ stderr' = Append(stderr, [kind |-> "startup"])
                      /\ status' = 0 - 1
                      /\ pc' = "exit"
                 ELSE /\ pc' = "scan"
                      /\ UNCHANGED <<stderr, status>>
    /\ op' = [name |-> "initialize"]
    /\ out' = << >>
    /\ UNCHANGED <<hashVars, fs, argv, argc, stack, option, nameBuf,
                   stdin, prompts>>

\* while (--argc > 0) scanFile(*++argv); then the summary line
MainScanArg ==
    /\ pc = "scan"
    /\ stack = << >>
    /\ argc' = argc - 1
    /\ IF argc - 1 > 0
       THEN /\ stack' = <<[fn |-> "scanFile",
                           fileName |-> argv[Len(argv) + 1 - (argc - 1)]]>>
            /\ UNCHANGED <<pc, op, out>>
       ELSE /\ pc' = "prompt"
            /\ op' = [name |-> "count"]
            /\ out' = <<[kind |-> "finished", count |-> getFileCount(Reg)]>>
            /\ UNCHANGED stack
    /\ UNCHANGED <<regVars, ret, hashVars,
                   fs, argv, stderr, status, option, nameBuf,
                   stdin, prompts>>

\* scanFile up to its return or to the first readDirectoryEntry of the
\* scanDirectory it calls; it does nothing after scanDirectory returns, so
\* the frame of scanDirectory takes the place of its own
ScanFile ==
    /\ pc = "scan"
    /\ stack # << >>
    /\ Top.fn = "scanFile"
    /\ IF stat(fs, Top.fileName).fails
       THEN /\ stderr' = Append(stderr, [kind |-> "access", path |-> Top.fileName])
            /\ stack' = Pop
            /\ UNCHANGED <<regVars, op, ret, out>>
       ELSE IF stat(fs, Top.fileName).isDir
       THEN /\ IF opendir(fs, Top.fileName).fails
               THEN /\ stderr' = Append(stderr, [kind |-> "accessDirectory",
                                                 path |-> Top.fileName])
                    /\ stack' = Pop
               ELSE /\ stack' = Append(Pop, [fn |-> "scanDirectory",
                                             directoryName |-> Top.fileName,
                                             directory |-> opendir(fs, Top.fileName).directory])
                    /\ UNCHANGED stderr
            /\ UNCHANGED <<regVars, op, ret, out>>
       ELSE \E okNode, okPath \in BOOLEAN :
               LET r == trackFile(Reg, Top.fileName, stat(fs, Top.fileName).st_mtime,
                                  okNode, okPath)
               IN  /\ SetReg(r.R)
                   /\ ret' = r.ret
                   /\ op' = [name |-> "register", filePath |-> Top.fileName,
                             modified |-> stat(fs, Top.fileName).st_mtime,
                             node |-> IF r.ret = 0 THEN Len(r.R.heap) ELSE NULL]
                   /\ out' = << >>
                   /\ stderr' = IF r.ret # 0
                                THEN Append(stderr, [kind |-> "log"])
                                ELSE stderr
                   /\ stack' = Pop
    /\ UNCHANGED <<hashVars, fs, pc, argv, argc, status, option, nameBuf,
                   stdin, prompts>>

\* one pass of the while loop of scanDirectory, or its end
ScanDirectoryEntry ==
    /\ pc = "scan"
    /\ stack # << >>
    /\ Top.fn = "scanDirectory"
    /\ LET rd == readDirectoryEntry(Top.directory)
           rest == [Top EXCEPT !.directory = rd.directory]
       IN  IF rd.entry = << >>
           THEN /\ stack' = Pop
                /\ UNCHANGED stderr
           ELSE IF selfOrParent(rd.entry[1].fileName)
           THEN /\ stack' = Append(Pop, rest)
                /\ UNCHANGED stderr
           ELSE IF tooLong(Top.directoryName, rd.entry[1].fileName)
           THEN /\ stderr' = Append(stderr, [kind |-> "tooLong",
                                             path |-> rd.entry[1].fileName])
                /\ stack' = Append(Pop, rest)
           ELSE /\ stack' = Append(Append(Pop, rest),
                                   [fn |-> "scanFile",
                                    fileName |-> PathName(Top.directoryName,
                                                          rd.entry[1].fileName)])
                /\ UNCHANGED stderr
    /\ UNCHANGED <<regVars, op, ret, out, hashVars,
                   fs, pc, argv, argc, status, option, nameBuf,
                   stdin, prompts>>

\* the characters the input may hold: 'a', 's', 'q' and 'x'
InputChars == {PRGM_ALL, PRGM_SRH, PRGM_EXT, 120}

\* scanf("\n%c", &option), whose result main does not look at, on input in
\* with option holding o: a character is read and stored, or the input is
\* at its end and option keeps what it held; a char that no scanf has
\* assigned holds any value
optionRead(in, o) ==
    (IF in = "open" THEN { [stdin |-> "open", option |-> c] : c \in InputChars }
     ELSE {})
    \cup { [stdin |-> "eof", option |-> c] :
              c \in IF o = INDETERMINATE THEN InputChars ELSE {o} }

\* scanf("%255s", fileName), likewise, with fileName holding f
nameRead(in, f) ==
    (IF in = "open" THEN { [stdin |-> "open", fileName |-> n] : n \in Names }
     ELSE {})
    \cup { [stdin |-> "eof", fileName |-> n] :
              n \in IF f = << >> THEN Names ELSE {f} }

\* one pass of the do-while of main: the prompt is printed and an option
\* read, the table is printed on 'a', a name is read and looked up on 's';
\* the loop is left when option is 'q'
MainCommand ==
    /\ pc = "prompt"
    /\ \E o \in optionRead(stdin, option) :
          /\ option' = o.option
          /\ IF o.option = PRGM_ALL
             THEN /\ out' = printFileTable(Reg)
                  /\ op' = [name |-> "enumerateAll"]
                  /\ stdin' = o.stdin
                  /\ UNCHANGED nameBuf
             ELSE IF o.option = PRGM_SRH
             THEN \E f \in nameRead(o.stdin, nameBuf) :
                     /\ nameBuf' = f.fileName
                     /\ stdin' = f.stdin
                     /\ out' = findFile(Reg, f.fileName)
                     /\ op' = [name |-> "lookup", fileName |-> f.fileName]
             ELSE /\ out' = << >>
                  /\ op' = [name |-> "none"]
                  /\ stdin' = o.stdin
                  /\ UNCHANGED nameBuf
          /\ pc' = IF o.option = PRGM_EXT THEN "cleanup" ELSE "prompt"
    /\ prompts' = ~prompts
    /\ ret' = 0
    /\ UNCHANGED <<regVars, hashVars, fs, argv, argc, stack, stderr, status>>

\* if (freeFileTable()) report it; return 0
MainCleanup ==
    /\ pc = "cleanup"
    /\ LET r == freeFileTable(Reg)
       IN  /\ SetReg(r.R)
           /\ ret' = r.ret
           /\ stderr' = IF r.ret # 0 THEN Append(stderr, [kind |-> "cleanup"])
                        ELSE stderr
    /\ op' = [name |-> "teardown"]
    /\ out' = << >>
    /\ status' = 0
    /\ pc' = "exit"
    /\ UNCHANGED <<hashVars, fs, argv, argc, stack, option, nameBuf,
                   stdin, prompts>>

MainNext ==
    \/ MainArgs
    \/ MainInitialize
    \/ MainScanArg
    \/ ScanFile
    \/ ScanDirectoryEntry
    \/ MainCommand
    \/ MainCleanup

SpecMain == MainInit /\ [][MainNext]_vars

\* the program is one sequential thread: the scan takes its next step
\* whenever it has one
SpecMainFair ==
    /\ MainInit
    /\ [][MainNext]_vars
    /\ WF_vars(MainArgs \/ MainInitialize \/ MainScanArg
               \/ ScanFile \/ ScanDirectoryEntry)

\* the program running on: every step it can take it takes, the command
\* loop included
SpecMainRun == MainInit /\ [][MainNext]_vars /\ WF_vars(MainNext)

\* the program on the file system with the cyclic link
SpecLinks == LinkInit /\ [][MainNext]_vars

SpecLinksFair ==
    /\ LinkInit
    /\ [][MainNext]_vars
    /\ WF_vars(MainArgs \/ MainInitialize \/ MainScanArg
               \/ ScanFile \/ ScanDirectoryEntry)

\* the tracker under either of its callers: the program, or a caller that
\* makes the public calls in any order
AnyCallerNext ==
    \/ pc = "none" /\ Next
    \/ MainNext

SpecAnyCaller == (Init \/ MainInit) /\ [][AnyCallerNext]_vars

(***************************************************************************)
(* Properties                                                              *)
(***************************************************************************)
RECURSIVE SumOfChains(_, _)
SumOfChains(R, S) ==
    IF S = {} THEN 0
    ELSE LET b == CHOOSE x \in S : TRUE
         IN  Len(Chain(R.heap, R.buckets[b])) + SumOfChains(R, S \ {b})

\* the number of records held in all bucket chains
RecordCount(R) == SumOfChains(R, DOMAIN R.buckets)

\* the component of a path after its last '/', the whole path without
\* one, found from the end of the path
RECURSIVE BaseFrom(_, _)
BaseFrom(path, i) ==
    IF i = 0 THEN path
    ELSE IF path[i] = SLASH THEN SubSeq(path, i + 1, Len(path))
    ELSE BaseFrom(path, i - 1)

BaseName(path) == BaseFrom(path, Len(path))

\* the index of the bucket whose chain holds node n
BucketOf(R, n) ==
    CHOOSE b \in DOMAIN R.buckets :
        \E i \in DOMAIN Chain(R.heap, R.buckets[b]) :
            Chain(R.heap, R.buckets[b])[i] = n

\* the chain that holds node n, and the place of n in it
ChainOf(R, n) == Chain(R.heap, R.buckets[BucketOf(R, n)])

PlaceOf(R, n) == CHOOSE i \in DOMAIN ChainOf(R, n) : ChainOf(R, n)[i] = n

\* the records registered earlier into the chain of the node the last
\* register call added, with the same modifiedTime as it
TiedWithNew ==
    {m \in Reachable(Reg) :
        /\ m # op.node
        /\ BucketOf(Reg, m) = BucketOf(Reg, op.node)
        /\ heap[m].modified = heap[op.node].modified}

Registered == op.name = "register" /\ ret = 0

\* C1: in every reachable state count() equals the number of records held
\* in all bucket chains (also after a teardown and a later initialize).
C1_CountIsRecordCount == getFileCount(Reg) = RecordCount(Reg)

\* C2: teardown() followed by initialize() yields a registry in which
\* count() returns 0 and the lookup of every registered name finds nothing.
C2_RoundTrip ==
    [][(op.name = "teardown" /\ ret = 0 /\ op'.name = "initialize" /\ ret' = 0)
          => /\ getFileCount(Reg)' = 0
             /\ \A p \in Paths :
                   findFile(Reg, BaseName(p))' = <<[kind |-> "nomatch"]>>]_vars

\* C3: every bucket chain is ordered from head to tail by non-increasing
\* modifiedTime, whatever the order the timestamps arrived in.
C3_NewestFirst ==
    \A b \in DOMAIN buckets :
        LET c == Chain(heap, buckets[b])
        IN  \A i, j \in DOMAIN c :
                i < j => heap[c[i]].modified >= heap[c[j]].modified

\* a chain of three whose middle node was registered last, between a newer
\* or equal node and a strictly older one registered before it
C3_Witness ==
    \E b \in DOMAIN buckets :
        LET c == Chain(heap, buckets[b])
        IN  /\ Len(c) = 3
            /\ c[2] > c[1]
            /\ c[2] > c[3]
            /\ c[3] > c[1]
            /\ heap[c[2]].modified > heap[c[3]].modified

\* C4 as claimed: a record registered into a chain that holds records with
\* the same modifiedTime lands nearer the head than those records.
C4_TieNearerHead ==
    Registered =>
        \A m \in TiedWithNew : PlaceOf(Reg, op.node) < PlaceOf(Reg, m)

\* C4 as amended: a record registered into a chain that holds records with
\* the same modifiedTime lands behind every one of them, nearer the tail.
C4_TieNearerTail ==
    Registered =>
        \A m \in TiedWithNew : PlaceOf(Reg, m) < PlaceOf(Reg, op.node)

\* a register call has just added a record to a chain that held two
\* records of that same modifiedTime
C4_Witness == Registered /\ Cardinality(TiedWithNew) >= 2

\* C5: teardown() on an initialized registry releases the node and the
\* path storage of every record in every chain, and the bucket array.
C5_TeardownReleasesAll ==
    [][(fileTable # NULL /\ op'.name = "teardown")
          => /\ \A n \in Reachable(Reg) : n \notin nodeLive' /\ n \notin pathLive'
             /\ ~tableLive']_vars

\* C6: register on a registry that is not initialized returns a failure
\* and inserts nothing.
C6_RegisterNeedsInitialize ==
    [][(fileTable = NULL /\ op'.name = "register")
          => /\ ret' # 0
             /\ fileTable' = NULL
             /\ buckets' = buckets
             /\ fileCount' = fileCount]_vars

\* a register call has just failed on a registry torn down after use; its
\* record had been allocated
C6_Witness ==
    /\ op.name = "register"
    /\ ret # 0
    /\ fileTable = NULL
    /\ fileCount > 0
    /\ Len(heap) \in pathLive

\* C7: records whose paths have the same base name are in the same chain,
\* and lookup of that base name prints a chain with every one of them.
C7_SameNameSameChain ==
    /\ \A n, m \in Reachable(Reg) :
          BaseName(heap[n].filePath) = BaseName(heap[m].filePath)
              => BucketOf(Reg, n) = BucketOf(Reg, m)
    /\ (op.name = "lookup" /\ fileTable # NULL) =>
          \A n \in Reachable(Reg) :
              BaseName(heap[n].filePath) = op.fileName =>
                  /\ Len(out) = 1
                  /\ out[1].kind = "chain"
                  /\ Cardinality({i \in DOMAIN out[1].lines :
                          /\ out[1].lines[i].filePath = heap[n].filePath
                          /\ out[1].lines[i].modified = heap[n].modified})
                     = Cardinality({m \in Reachable(Reg) :
                          /\ heap[m].filePath = heap[n].filePath
                          /\ heap[m].modified = heap[n].modified})

\* a lookup of a name registered under two different paths
C7_Witness ==
    /\ op.name = "lookup"
    /\ \E n, m \in Reachable(Reg) :
          /\ heap[n].filePath # heap[m].filePath
          /\ BaseName(heap[n].filePath) = op.fileName
          /\ BaseName(heap[m].filePath) = op.fileName

\* C8: hash returns a value in [0, TBL_SIZE) for every non-empty key, and
\* the value it returned for a key before.
C8_HashInRange ==
    (hpc = "idle" /\ key # << >>) =>
        /\ hashRet \in 0..(TBL_SIZE - 1)
        /\ kept.key = key => hashRet = kept.ret

\* hash returns for the second time on a key whose accumulation, all
\* ASCII, overflowed to a negative long
C8_Witness ==
    /\ hpc = "idle"
    /\ key # << >>
    /\ kept.key = key
    /\ kept.again
    /\ \A i \in DOMAIN key : key[i] < 128
    /\ LongIsNegative(hashVal)

\* C9: register, lookup, enumerateAll and count leave every record that
\* is in the registry in it, with its path and its modifiedTime.
C9_RecordsStay ==
    [][op'.name \in {"register", "lookup", "enumerateAll", "count"}
          => \A n \in Reachable(Reg) :
                /\ n \in Reachable(Reg)'
                /\ heap'[n].filePath = heap[n].filePath
                /\ heap'[n].modified = heap[n].modified]_vars

\* a register call has just put a record at the head of a chain that held
\* records
C9_Witness ==
    /\ Registered
    /\ PlaceOf(Reg, op.node) = 1
    /\ Len(ChainOf(Reg, op.node)) >= 2

\* the names a directory lists, "." and ".." and unused slots left out
Listed(p) ==
    { Directories[p][i].d_name : i \in
        { j \in DOMAIN Directories[p] :
            /\ Directories[p][j].d_ino # 0
            /\ Directories[p][j].d_name \notin { <<46>>, <<46, 46>> } } }

Exists(p) == p \in (DOMAIN Directories) \cup (DOMAIN Files)

\* stat succeeds on p, and opendir too when p is a directory
Accessible(p) ==
    /\ Exists(p)
    /\ p \notin fs.denied
    /\ p \in DOMAIN Directories => p \notin fs.closed

\* the paths a scan of p meets: p, and below an accessible directory the
\* paths of the entries it lists, those longer than limit left out
RECURSIVE Met(_, _)
Met(p, limit) ==
    {p} \cup
    IF p \in DOMAIN Directories /\ Accessible(p)
    THEN UNION { Met(p \o <<SLASH>> \o e, limit) :
                 e \in { x \in Listed(p) : Len(p) + 1 + Len(x) <= limit } }
    ELSE {}

\* the entries of accessible directories whose path is longer than limit
RECURSIVE Overlong(_, _)
Overlong(p, limit) ==
    IF p \in DOMAIN Directories /\ Accessible(p)
    THEN { p \o <<SLASH>> \o x : x \in { y \in Listed(p) : Len(p) + 1 + Len(y) > limit } }
         \cup UNION { Overlong(p \o <<SLASH>> \o e, limit) :
                      e \in { x \in Listed(p) : Len(p) + 1 + Len(x) <= limit } }
    ELSE {}

\* the same over the whole command line
MetByScan(limit) == UNION { Met(argv[i], limit) : i \in DOMAIN argv }

OverlongByScan(limit) == UNION { Overlong(argv[i], limit) : i \in DOMAIN argv }

\* the accessible non-directories among the paths met
FilesMet(limit) == { p \in MetByScan(limit) : Accessible(p) /\ p \in DOMAIN Files }

RegisteredPaths == { heap[n].filePath : n \in Reachable(Reg) }

Reports(kinds) == { i \in DOMAIN stderr : stderr[i].kind \in kinds }

\* one access error for each inaccessible path met, and no other
OneAccessErrorEach(limit) ==
    /\ \A p \in { q \in MetByScan(limit) : ~Accessible(q) } :
          Cardinality({ i \in Reports({"access", "accessDirectory"}) :
                          stderr[i].path = p }) = 1
    /\ \A i \in Reports({"access", "accessDirectory"}) :
          /\ stderr[i].path \in MetByScan(limit)
          /\ ~Accessible(stderr[i].path)

\* a path of any length: longer than every path of the model
Unlimited == 2 * MAX_PATH

\* C10 as claimed: when the scan of the command line is complete, the
\* registry holds exactly the accessible non-directory entries reachable
\* through accessible directories, each once, and one access error has been
\* reported for each inaccessible path met.
C10_ScanRegistersAll ==
    pc = "prompt" =>
        /\ RegisteredPaths = FilesMet(Unlimited)
        /\ RecordCount(Reg) = Cardinality(FilesMet(Unlimited))
        /\ OneAccessErrorEach(Unlimited)

\* C10 as amended: the scan runs to completion; the registry then holds,
\* each once, the accessible non-directory entries reachable through
\* accessible directories by a path of at most MAX_PATH - 1 characters,
\* but for those whose registration failed, of which there are as many
\* as failures reported; one access error has been reported for each
\* inaccessible path met, and one path-too-long error for each entry left
\* out for its length.
C10_ScanRegistersReachable ==
    /\ [](pc = "prompt" =>
            /\ RegisteredPaths \subseteq FilesMet(MAX_PATH - 1)
            /\ RecordCount(Reg) = Cardinality(RegisteredPaths)
            /\ Cardinality(FilesMet(MAX_PATH - 1)) - RecordCount(Reg)
               = Cardinality(Reports({"log"}))
            /\ OneAccessErrorEach(MAX_PATH - 1)
            /\ Cardinality(Reports({"tooLong"}))
               = Cardinality(OverlongByScan(MAX_PATH - 1)))
    /\ (pc = "scan") ~> (pc = "prompt")

\* the scan of "d" is complete: the two files of its subdirectory are
\* registered, its file "x" was inaccessible and reported, and the
\* registration of its file "a" failed
C10_Witness ==
    /\ pc = "prompt"
    /\ argv = << <<100>> >>
    /\ RegisteredPaths = { <<100, 47, 115, 47, 97>>, <<100, 47, 115, 47, 98>> }
    /\ \E i \in Reports({"access"}) : stderr[i].path = <<100, 47, 120>>
    /\ Cardinality(Reports({"log"})) = 1

\* the path of a call of scanFile or scanDirectory in progress
PathOf(frame) ==
    IF frame.fn = "scanFile" THEN frame.fileName ELSE frame.directoryName

\* the place, in the stream of the innermost scanDirectory, of the entry
\* its next read yields: the first one in use (0 when there is none)
NextPlace ==
    IF \E i \in DOMAIN Top.directory : Top.directory[i].d_ino # 0
    THEN CHOOSE i \in DOMAIN Top.directory :
            /\ Top.directory[i].d_ino # 0
            /\ \A j \in 1..(i - 1) : Top.directory[j].d_ino = 0
    ELSE 0

\* the innermost call is a scanDirectory whose next entry, neither "." nor
\* "..", makes with the directory and the separator a path that the path
\* buffer of MAX_PATH characters cannot hold with its terminator
OverlongNext ==
    /\ pc = "scan"
    /\ stack # << >>
    /\ Top.fn = "scanDirectory"
    /\ NextPlace # 0
    /\ Top.directory[NextPlace].d_name \notin { <<46>>, <<46, 46>> }
    /\ Len(Top.directoryName) + 1 + Len(Top.directory[NextPlace].d_name) + 1
       > MAX_PATH

\* directory d is being read by some call in progress
Reading(d) ==
    \E i \in DOMAIN stack :
        stack[i].fn = "scanDirectory" /\ stack[i].directoryName = d

\* the innermost call is the scanDirectory of d, with every entry read
ReadToEnd(d) ==
    /\ stack # << >>
    /\ Top.fn = "scanDirectory"
    /\ Top.directoryName = d
    /\ Top.directory = << >>

\* C11: the pass of scanDirectory over an entry whose path is too long
\* reports it by name, starts no scan of it, registers nothing and goes on
\* with the entries that follow it; every directory being read is read to
\* its end; no path scanned or registered is longer than the path buffer
\* of MAX_PATH characters, its terminator counted.
C11_TooLongSkipped ==
    /\ [](\A i \in DOMAIN stack : Len(PathOf(stack[i])) + 1 <= MAX_PATH)
    /\ [](\A p \in RegisteredPaths : Len(p) + 1 <= MAX_PATH)
    /\ [][OverlongNext =>
            /\ stderr' = Append(stderr,
                                [kind |-> "tooLong",
                                 path |-> Top.directory[NextPlace].d_name])
            /\ UNCHANGED regVars
            /\ stack' = [stack EXCEPT ![Len(stack)].directory =
                            SubSeq(@, NextPlace + 1, Len(@))]]_vars
    /\ \A d \in DOMAIN Directories : Reading(d) ~> ReadToEnd(d)

\* "bb" of the long directory was reported as too long and is not
\* registered, and "c", which the directory lists after it, is
C11_Witness ==
    /\ \E i \in Reports({"tooLong"}) : stderr[i].path = <<98, 98>>
    /\ PathName(LongDirectory, <<98, 98>>) \notin RegisteredPaths
    /\ PathName(LongDirectory, <<99>>) \in RegisteredPaths

\* C12: teardown() on a registry that is not initialized, torn down
\* already or never set up, returns a failure and changes nothing of the
\* registry; main's shutdown reports a failed teardown and returns 0
\* whatever teardown returned.
C12_TeardownTwiceFails ==
    [][/\ (fileTable = NULL /\ op'.name = "teardown")
            => ret' # 0 /\ UNCHANGED regVars
       /\ pc = "cleanup"
            => /\ op'.name = "teardown"
               /\ status' = 0
               /\ pc' = "exit"
               /\ stderr' = IF ret' # 0
                            THEN Append(stderr, [kind |-> "cleanup"])
                            ELSE stderr]_vars

\* a teardown has just failed on a registry that had been initialized,
\* had records registered and was torn down before
C12_Witness ==
    /\ op.name = "teardown"
    /\ ret # 0
    /\ fileTable = NULL
    /\ fileCount > 0

\* no two records of the registry have the same path
DistinctPaths ==
    \A n, m \in Reachable(Reg) : n # m => heap[n].filePath # heap[m].filePath

\* C13: count() on an initialized registry whose records have distinct
\* paths returns their number, which is the number of successful register
\* calls since the initialize that set it up (initialize leaves every
\* bucket empty and only register adds a record); a successful register
\* call adds one to the count and no other call changes it.
C13_CountIsNumberRegistered ==
    /\ []((op.name = "count" /\ fileTable # NULL /\ DistinctPaths)
            => ret = Cardinality(RegisteredPaths))
    /\ [][fileCount' = IF op'.name = "register" /\ ret' = 0
                       THEN fileCount + 1
                       ELSE fileCount]_vars

\* the second half of C13 alone, which holds
C13_OnlyRegisterCounts ==
    [][fileCount' = IF op'.name = "register" /\ ret' = 0
                    THEN fileCount + 1
                    ELSE fileCount]_vars

\* the indices of the buckets whose chain is not empty
NonEmpty == { b \in DOMAIN buckets : buckets[b] # NULL }

\* the i-th of them in ascending order
NthNonEmpty(i) ==
    CHOOSE b \in NonEmpty : Cardinality({ c \in NonEmpty : c < b }) = i - 1

\* C14: what enumerateAll() prints on an initialized registry is one group
\* for each non-empty bucket and nothing else, the groups in ascending
\* order of bucket index, each with the length of its chain as its member
\* count and one line for each record of the chain, in chain order.  Every
\* call prints this, whatever was called before it.
C14_EnumerateGroups ==
    (op.name = "enumerateAll" /\ fileTable # NULL) =>
        /\ Len(out) = Cardinality(NonEmpty)
        /\ \A i \in DOMAIN out :
              LET c == Chain(heap, buckets[NthNonEmpty(i)])
              IN  /\ out[i].kind = "chain"
                  /\ out[i].count = Len(c)
                  /\ Len(out[i].lines) = Len(c)
                  /\ \A j \in DOMAIN c :
                        /\ out[i].lines[j].i = j
                        /\ out[i].lines[j].filePath = heap[c[j]].filePath
                        /\ out[i].lines[j].modified = heap[c[j]].modified

\* enumerateAll() has printed two groups, the first of one record and the
\* second, of a bucket with a higher index, of two of different age
C14_Witness ==
    /\ op.name = "enumerateAll"
    /\ Len(out) = 2
    /\ out[1].count = 1
    /\ out[2].count = 2
    /\ out[2].lines[1].modified > out[2].lines[2].modified

\* C15: lookup(name) on an initialized registry that holds no record in
\* the bucket of name prints the "no match" message, which is no error,
\* and nothing else; a lookup changes nothing of the registry.
C15_LookupEmptyBucket ==
    /\ []((/\ op.name = "lookup"
            /\ fileTable # NULL
            /\ hash(op.fileName) \notin NonEmpty)
              => out = <<[kind |-> "nomatch"]>>)
    /\ [][op'.name = "lookup" => UNCHANGED regVars]_vars

\* a lookup has found no match in a registry that holds records
C15_Witness ==
    /\ op.name = "lookup"
    /\ fileTable # NULL
    /\ RecordCount(Reg) > 0
    /\ out = <<[kind |-> "nomatch"]>>

\* the run was given no argument, or its initialize has failed
NoStart == argv = << >> \/ (op.name = "initialize" /\ ret # 0)

PutIn(c, n, k) == SubSeq(c, 1, k - 1) \o <<n>> \o SubSeq(c, k, Len(c))

\* the place in chain c of its first record strictly older than time t,
\* the place behind its tail when it has none
FirstOlder(h, c, t) ==
    IF \E i \in DOMAIN c : h[c[i]].modified < t
    THEN CHOOSE i \in DOMAIN c :
            /\ h[c[i]].modified < t
            /\ \A j \in 1..(i - 1) : h[c[j]].modified >= t
    ELSE Len(c) + 1

\* C17: a successful register call turns the chain of the new record's
\* bucket into that chain with the new record put in immediately before
\* its first record strictly older than the new one, at the tail when it
\* has none; records of equal modifiedTime are therefore in every chain in
\* the order they were registered in, which is the order of their
\* addresses.
C17_BeforeFirstOlder ==
    /\ [][(op'.name = "register" /\ ret' = 0) =>
            LET n == op'.node
                b == hash(BaseName(op'.filePath))
                old == Chain(heap, Slot(Reg, b))
            IN  Chain(heap', buckets'[b])
                = PutIn(old, n, FirstOlder(heap, old, op'.modified))]_vars
    /\ [](\A b \in DOMAIN buckets :
            LET c == Chain(heap, buckets[b])
            IN  \A i, j \in DOMAIN c :
                    (i < j /\ heap[c[i]].modified = heap[c[j]].modified)
                        => c[i] < c[j])

\* a register call has just put a record between an earlier record of its
\* own modifiedTime and a strictly older one
C17_Witness ==
    /\ Registered
    /\ Len(ChainOf(Reg, op.node)) = 3
    /\ PlaceOf(Reg, op.node) = 2
    /\ heap[ChainOf(Reg, op.node)[1]].modified = heap[op.node].modified
    /\ heap[ChainOf(Reg, op.node)[3]].modified < heap[op.node].modified

\* C18: a register call that returns a failure leaves the count and every
\* bucket chain as they were, and leaves allocated no block that was not
\* allocated before it.
C18_FailedRegisterChangesNothing ==
    [][(op'.name = "register" /\ ret' # 0) =>
          /\ fileCount' = fileCount
          /\ fileTable' = fileTable
          /\ DOMAIN buckets' = DOMAIN buckets
          /\ \A b \in DOMAIN buckets :
                Chain(heap', buckets'[b]) = Chain(heap, buckets[b])
          /\ nodeLive' = nodeLive
          /\ pathLive' = pathLive]_vars

\* the part of C18 about the count and the chains alone, which holds
C18_FailedRegisterKeepsChains ==
    [][(op'.name = "register" /\ ret' # 0) =>
          /\ fileCount' = fileCount
          /\ fileTable' = fileTable
          /\ DOMAIN buckets' = DOMAIN buckets
          /\ \A b \in DOMAIN buckets :
                Chain(heap', buckets'[b]) = Chain(heap, buckets[b])]_vars

\* C19: on the file system whose directory holds a symbolic link to
\* itself the scan runs to its end; of the calls in progress each has a
\* strictly longer path than the one it was made from, no path is longer
\* than MAX_PATH - 1 characters, and so there are never more than MAX_PATH
\* calls in progress.
C19_ScanTerminates ==
    /\ (pc = "scan") ~> (pc = "prompt")
    /\ [](\A i, j \in DOMAIN stack :
            i < j => Len(PathOf(stack[i])) < Len(PathOf(stack[j])))
    /\ [](\A i \in DOMAIN stack : Len(PathOf(stack[i])) < MAX_PATH)
    /\ [](Len(stack) <= MAX_PATH)

\* the scan of the cycle directory is complete: it went through the link
\* twice and registered the file "a" it found there, and left out the
\* entries of the third time round as too long
C19_Witness ==
    /\ pc = "prompt"
    /\ argv = << CycleDirectory >>
    /\ PathName(PathName(PathName(CycleDirectory, <<108>>), <<108>>), <<97>>)
           \in RegisteredPaths
    /\ Reports({"tooLong"}) # {}

\* C20: once the input is at its end the command loop stops and the
\* program goes on to its teardown.
C20_LoopEndsWithInput ==
    (pc = "prompt" /\ stdin = "eof") ~> (op.name = "teardown")

\* what does hold: the loop is left only when option is 'q'
C20_LoopEndsOnQuit ==
    [][(pc = "prompt" /\ pc' # "prompt") => option' = PRGM_EXT]_vars

====
